---- MODULE Spec2Model ----
(***************************************************************************)
(* A model of ecmwf_models: the ERA5 download orchestrator                 *)
(* (era5/download.py), the grid helpers (grid.py) and the reshuffle        *)
(* driver (era5/reshuffle.py).                                             *)
(*                                                                         *)
(* Spec           the download command and download_and_move               *)
(* FairSpec       Spec, with every started call running on                 *)
(* SpecGrid       ERA_RegularImgGrid followed by get_grid_resolution       *)
(* SpecCoords     get_grid_resolution on coordinates of any kind           *)
(* SpecRegular    ERA_RegularImgGrid alone, also at 0.3 degrees            *)
(* SpecIrregular  ERA_IrregularImgGrid against ERA_RegularImgGrid          *)
(* SpecReshuffle  reshuffle and the buffered loop of Img2Ts                *)
(***************************************************************************)
EXTENDS Integers, Sequences, FiniteSets, TLC

VARIABLES
    pc,             \* position in main / download_and_move
    startdate,      \* parameter startdate (a datetime)
    enddate,        \* parameter enddate (a datetime)
    variables,      \* parameter variables, then the resolved dl_names
    keep_original,  \* parameter keep_original
    h_steps,        \* parameter h_steps
    grb,            \* parameter grb
    dry_run,        \* parameter dry_run
    c,              \* the cdsapi client: "unset", "None" or "Client"
    curr_start,     \* local curr_start
    curr_end,       \* local curr_end
    dl_file,        \* local dl_file (the staged file's name)
    finished,       \* local finished
    i,              \* local i (failed attempts of this chunk)
    stagingExists,  \* os.path.exists(target_path/temp_downloaded)
    stagingFiles,   \* the files in target_path/temp_downloaded
    archive,        \* staged files the extractor has split into target_path
    request,        \* the last request handed to c.retrieve, or "None"
    chunks,         \* history: the chunks [curr_start, curr_end] so far
    attempts,       \* history: download_era5 calls made for this chunk
    extracts,       \* history: extractor calls made for this chunk
    preStaged,      \* history: the staging files present before the run
    staged,         \* history: the files c.retrieve wrote in full in this run
    error,          \* the exception that ended the run, or "None"
    result,         \* what download_and_move returned, "unset" before
    entry,          \* history: "main" (the command) or "call" (a direct call)
    cli_h_steps,    \* history: args.h_steps as parse_args returned it
    gpc,            \* grid: position
    res_lat,        \* grid: parameter res_lat (in units of 1/Deg degree)
    res_lon,        \* grid: parameter res_lon
    lat,            \* grid: the latitudes of the grid (a set, unique)
    lon,            \* grid: the longitudes of the grid
    gres,           \* grid: what get_grid_resolution returned or raised
    mesh_lons,      \* grid: the caller's 2-D array lons (rows of values)
    mesh_lats,      \* grid: the caller's 2-D array lats
    grid,           \* grid: what ERA_IrregularImgGrid returned
    reg_grid,       \* grid: what ERA_RegularImgGrid returned, point by point
    rs_pc,          \* reshuffle: position
    rs_startdate,   \* reshuffle: parameter startdate
    rs_enddate,     \* reshuffle: parameter enddate
    rs_h_steps,     \* reshuffle: parameter h_steps
    rs_imgbuffer,   \* reshuffle: parameter imgbuffer
    filetype,       \* reshuffle: local filetype, "unset" before line 76
    outputExists,   \* reshuffle: os.path.exists(outputpath)
    first_date_time,\* reshuffle: local first_date_time
    rs_reads,       \* reshuffle history: the timestamps read, in order
    rs_buffer,      \* reshuffle: the images Img2Ts holds (their timestamps)
    rs_next,        \* reshuffle: index of the next timestamp Img2Ts reads
    rs_written,     \* reshuffle: the images written to the time series
    rs_makedirs,    \* reshuffle history: os.makedirs(outputpath) was called
    rs_error        \* reshuffle: the exception that ended it, or "None"

dlvars == <<pc, startdate, enddate, variables, keep_original, h_steps, grb,
            dry_run, c, curr_start, curr_end, dl_file, finished, i,
            stagingExists, stagingFiles, archive, request, chunks, attempts,
            extracts, preStaged, staged, error, result, entry, cli_h_steps>>
irrvars == <<mesh_lons, mesh_lats, grid, reg_grid>>
gridvars == <<gpc, res_lat, res_lon, lat, lon, gres, irrvars>>
rsvars == <<rs_pc, rs_startdate, rs_enddate, rs_h_steps, rs_imgbuffer,
            filetype, outputExists, first_date_time, rs_reads, rs_buffer,
            rs_next, rs_written, rs_makedirs, rs_error>>
vars == <<dlvars, gridvars, rsvars>>

-----------------------------------------------------------------------------
(* Bounds of the model *)

\* enddate lies at most this many calendar months after startdate's month
MaxSpanMonths == 2

-----------------------------------------------------------------------------
(* datetime and calendar *)

\* Python's None and a bound value: an optional value is <<>> or <<v>>
None == <<>>
Some(v) == <<v>>
Val(o) == o[1]

\* a name that is not bound yet
NoDate == [year |-> 0, month |-> 0, day |-> 0, hour |-> 0]
NoFile == [start |-> <<0, 0, 0>>, end |-> <<0, 0, 0>>, ext |-> ""]

\* calendar.isleap
IsLeap(y) == (y % 4 = 0 /\ y % 100 /= 0) \/ y % 400 = 0

\* calendar.monthrange(y, m)[1]: the number of days of month m of year y
MonthRange(y, m) ==
    IF m = 2 THEN (IF IsLeap(y) THEN 29 ELSE 28)
    ELSE IF m \in {4, 6, 9, 11} THEN 30 ELSE 31

\* datetime(y, m, d): midnight of that day
DateTime(y, m, d) == [year |-> y, month |-> m, day |-> d, hour |-> 0]

\* datetime <= datetime
DateLeq(a, b) ==
    \/ a.year < b.year
    \/ a.year = b.year /\ a.month < b.month
    \/ a.year = b.year /\ a.month = b.month /\ a.day < b.day
    \/ a.year = b.year /\ a.month = b.month /\ a.day = b.day /\ a.hour <= b.hour

\* mutant: curr_start = curr_end, the day is not advanced
PlusOneDay_NotAdvanced(a) == a

\* datetime + timedelta(days=1): the same time of day on the next calendar day
PlusOneDay(a) ==
    IF a.day < MonthRange(a.year, a.month)
    THEN [a EXCEPT !.day = a.day + 1]
    ELSE IF a.month < 12
         THEN [a EXCEPT !.month = a.month + 1, !.day = 1]
         ELSE [a EXCEPT !.year = a.year + 1, !.month = 1, !.day = 1]

RECURSIVE DaysBeforeMonth(_, _)
DaysBeforeMonth(y, m) ==
    IF m = 1 THEN 0 ELSE DaysBeforeMonth(y, m - 1) + MonthRange(y, m - 1)

\* datetime.toordinal: the day number of a date in the proleptic calendar
ToOrdinal(a) ==
    (a.year - 1) * 365 + ((a.year - 1) \div 4) - ((a.year - 1) \div 100)
    + ((a.year - 1) \div 400) + DaysBeforeMonth(a.year, a.month) + a.day

\* strftime("%Y%m%d"): the date without its time of day
Ymd(a) == <<a.year, a.month, a.day>>

-----------------------------------------------------------------------------
(* Inputs *)

StartMonths == {<<2016, 2>>, <<2016, 12>>, <<2017, 1>>}
StartDays == {15, 31}
EndDays == {1, 10, 31}
Hours == {0, 12}

\* the month k months after month ym
AddMonths(ym, k) ==
    LET n == (ym[2] - 1) + k
    IN  <<ym[1] + (n \div 12), (n % 12) + 1>>

Min(a, b) == IF a <= b THEN a ELSE b

\* the sampled days of a month (31 stands for its last day)
DatesOfMonth(ym, days, hours) ==
    { [year |-> ym[1], month |-> ym[2],
       day |-> Min(d, MonthRange(ym[1], ym[2])), hour |-> h] :
      d \in days, h \in hours }

StartDates(hours) ==
    UNION { DatesOfMonth(ym, StartDays, hours) : ym \in StartMonths }

EndDates(s, hours) ==
    UNION { DatesOfMonth(AddMonths(<<s.year, s.month>>, k), EndDays, hours) :
            k \in 0..MaxSpanMonths }

\* download.py line 96: the default of download_and_move's h_steps
DefaultHSteps == <<0, 6, 12, 18>>

\* reshuffle.py lines 73-74: the h_steps reshuffle works with
ReshuffleHSteps(hs) == IF hs = None THEN <<0, 6, 12, 18>> ELSE Val(hs)

\* a file left in temp_downloaded by an earlier run that kept its originals
StaleFile == [start |-> <<2017, 1, 15>>, end |-> <<2017, 1, 31>>, ext |-> "nc"]

-----------------------------------------------------------------------------
(* download.py *)

\* get_grid_resolution was not called yet
NoResolution == [raised |-> "None", lat_res |-> 0, lon_res |-> 0]

\* no grid was built yet: a grid is its points' longitudes and latitudes
\* (BasicGrid.arrlon, BasicGrid.arrlat), in the order of its grid point indices
NoGrid == [arrlon |-> <<>>, arrlat |-> <<>>]

IrregularIdle ==
    /\ mesh_lons = <<>> /\ mesh_lats = <<>>
    /\ grid = NoGrid /\ reg_grid = NoGrid

GridIdle ==
    /\ gpc = "idle" /\ res_lat = 0 /\ res_lon = 0
    /\ lat = {} /\ lon = {} /\ gres = NoResolution
    /\ IrregularIdle

\* reshuffle was not called
ReshuffleIdle ==
    /\ rs_pc = "idle"
    /\ rs_startdate = NoDate /\ rs_enddate = NoDate
    /\ rs_h_steps = None /\ rs_imgbuffer = 200
    /\ filetype = "unset"
    /\ first_date_time = NoDate
    /\ rs_reads = <<>> /\ rs_buffer = <<>> /\ rs_next = 1
    /\ rs_written = <<>>
    /\ rs_makedirs = FALSE
    /\ rs_error = "None"

DownloadInit ==
    /\ pc = "idle"
    /\ startdate = NoDate /\ enddate = NoDate
    /\ variables = None
    /\ keep_original = FALSE
    /\ h_steps = Some(DefaultHSteps)
    /\ grb = FALSE /\ dry_run = FALSE
    /\ c = "unset"
    /\ curr_start = NoDate /\ curr_end = NoDate /\ dl_file = NoFile
    /\ finished = FALSE /\ i = 0
    /\ \E stale \in {"nodir", "stale"} :
         /\ stagingExists = (stale = "stale")
         /\ stagingFiles = (IF stale = "stale" THEN {StaleFile} ELSE {})
    /\ preStaged = stagingFiles
    /\ staged = {}
    /\ archive = {}
    /\ request = None
    /\ chunks = <<>>
    /\ attempts = 0 /\ extracts = 0
    /\ error = "None"
    /\ result = "unset"
    /\ entry = "none" /\ cli_h_steps = None

Init == DownloadInit /\ GridIdle /\ ReshuffleIdle /\ outputExists = FALSE

\* the names of the variable table (ecmwf_models.utils, era5_lut)
VarTable == [swvl1 |-> "volumetric_soil_water_layer_1", lsm |-> "land_sea_mask"]

\* default_variables(): the dl_names of the table's default rows
default_variables == <<"volumetric_soil_water_layer_1", "land_sea_mask">>

\* lookup(name='ERA5', variables) fails when a name is not in the table
LookupFails(vs) == \E k \in 1..Len(vs) : vs[k] \notin DOMAIN VarTable

\* lookup(name='ERA5', variables)['dl_name'].values.tolist()
lookup(vs) == [k \in 1..Len(vs) |-> VarTable[vs[k]]]

\* --variables: not given, or a name that is not in the table
MainVariables == {None, Some(<<"bogus">>)}

\* download_and_move is entered with these arguments
Enter(s, e, vs, keep, hs, g, dry) ==
    /\ pc' = "resolve"
    /\ startdate' = s /\ enddate' = e
    /\ variables' = vs
    /\ keep_original' = keep
    /\ h_steps' = hs
    /\ grb' = g
    /\ dry_run' = dry
    /\ UNCHANGED <<c, curr_start, curr_end, dl_file, finished, i,
                   stagingExists, stagingFiles, archive, request, chunks,
                   attempts, extracts, preStaged, staged, error, result>>

\* parse_args, line 232: args.h_steps is the list given with --h_steps, and
\* the default None when the option is not given
ParsedHSteps(given) == given

\* main, line 252: the h_steps that main hands to download_and_move
MainHSteps(args_h_steps) == args_h_steps

\* run() / main(args): the download command.  --start and --end are parsed
\* by mkdate (midnight); the default of --end is datetime.now().
main ==
    /\ pc = "idle"
    /\ \E s \in StartDates({0}) : \E e \in EndDates(s, Hours) :
       \E vs \in MainVariables : \E keep \in BOOLEAN : \E g \in BOOLEAN :
       \E given \in {None, Some(<<0, 12>>)} :
           /\ cli_h_steps' = ParsedHSteps(given)
           /\ Enter(s, e, vs, keep, MainHSteps(cli_h_steps'), g, FALSE)
    /\ entry' = "main"
    /\ UNCHANGED <<gridvars, rsvars>>

\* a direct call of download_and_move with a list of variables, which leaves
\* h_steps and grb at their defaults
Call ==
    /\ pc = "idle"
    /\ \E s \in StartDates(Hours) : \E e \in EndDates(s, Hours) :
       \E keep \in BOOLEAN : \E dry \in BOOLEAN :
           Enter(s, e, Some(<<"swvl1", "lsm">>), keep, Some(DefaultHSteps),
                 FALSE, dry)
    /\ entry' = "call"
    /\ UNCHANGED cli_h_steps
    /\ UNCHANGED <<gridvars, rsvars>>

Raise(exc) == pc' = "raised" /\ error' = exc

\* lines 134-138 moved above lines 125-130: the client is made first
ResolveVariables_ClientFirst ==
    /\ pc = "resolve"
    /\ c' = IF dry_run THEN "None" ELSE "Client"
    /\ IF variables /= None /\ LookupFails(Val(variables))
       THEN /\ Raise("UnknownVariableError")
            /\ UNCHANGED <<variables, curr_start>>
       ELSE /\ variables' = IF variables = None THEN Some(default_variables)
                            ELSE Some(lookup(Val(variables)))
            /\ curr_start' = startdate
            /\ pc' = "client"
            /\ UNCHANGED error
    /\ UNCHANGED <<startdate, enddate, keep_original, h_steps, grb, dry_run,
                   curr_end, dl_file, finished, i, stagingExists,
                   stagingFiles, archive, request, chunks, attempts,
                   extracts, preStaged, staged,
                   result, entry, cli_h_steps>>
    /\ UNCHANGED <<gridvars, rsvars>>

\* lines 125-132: the variables are resolved, curr_start = startdate
ResolveVariables ==
    /\ pc = "resolve"
    /\ IF variables /= None /\ LookupFails(Val(variables))
       THEN /\ Raise("UnknownVariableError")
            /\ UNCHANGED <<variables, curr_start>>
       ELSE /\ variables' = IF variables = None THEN Some(default_variables)
                            ELSE Some(lookup(Val(variables)))
            /\ curr_start' = startdate
            /\ pc' = "client"
            /\ UNCHANGED error
    /\ UNCHANGED <<startdate, enddate, keep_original, h_steps, grb, dry_run,
                   c, curr_end, dl_file, finished, i, stagingExists,
                   stagingFiles, archive, request, chunks, attempts,
                   extracts, preStaged, staged,
                   result, entry, cli_h_steps>>
    /\ UNCHANGED <<gridvars, rsvars>>

\* lines 134-138: what c is bound to
MakeClient(dry) == IF dry THEN "None" ELSE "Client"

CreateClient ==
    /\ pc = "client"
    /\ c' = MakeClient(dry_run)
    /\ pc' = "loop"
    /\ UNCHANGED <<startdate, enddate, variables, keep_original, h_steps,
                   grb, dry_run, curr_start, curr_end, dl_file, finished, i,
                   stagingExists, stagingFiles, archive, request, chunks,
                   attempts, extracts, preStaged, staged, error,
                   result, entry, cli_h_steps>>
    /\ UNCHANGED <<gridvars, rsvars>>

\* mutant: d = sm_days whatever enddate is
ChunkEndDay_NoCap(cs, ed) == MonthRange(cs.year, cs.month)

\* lines 141-148: the last day d of the chunk that starts at cs
ChunkEndDay(cs, ed) ==
    IF ed.year = cs.year /\ ed.month = cs.month
    THEN ed.day
    ELSE MonthRange(cs.year, cs.month)

\* lines 152-154: the name of the staged file
Fname(cs, ce, g) ==
    [start |-> Ymd(cs), end |-> Ymd(ce), ext |-> IF g THEN "grb" ELSE "nc"]

\* line 140 (true) to line 161: one chunk is set up
ChunkSetup ==
    /\ pc = "loop"
    /\ DateLeq(curr_start, enddate)
    /\ LET d == ChunkEndDay(curr_start, enddate)
           ce == DateTime(curr_start.year, curr_start.month, d)
       IN  /\ curr_end' = ce
           /\ dl_file' = Fname(curr_start, ce, grb)
           /\ chunks' = Append(chunks, [start |-> curr_start, end |-> ce])
    /\ stagingExists' = TRUE
    /\ finished' = FALSE /\ i' = 0
    /\ attempts' = 0 /\ extracts' = 0
    /\ pc' = "try"
    /\ UNCHANGED <<startdate, enddate, variables, keep_original, h_steps,
                   grb, dry_run, c, curr_start, stagingFiles, archive,
                   request, preStaged, staged, error,
                   result, entry, cli_h_steps>>
    /\ UNCHANGED <<gridvars, rsvars>>

\* lines 95-185: download_and_move has no return statement
ReturnValue == "None"

\* line 140 (false): the loop is left and download_and_move returns
Return ==
    /\ pc = "loop"
    /\ ~DateLeq(curr_start, enddate)
    /\ pc' = "returned"
    /\ result' = ReturnValue
    /\ UNCHANGED <<startdate, enddate, variables, keep_original, h_steps,
                   grb, dry_run, c, curr_start, curr_end, dl_file, finished,
                   i, stagingExists, stagingFiles, archive, request, chunks,
                   attempts, extracts, preStaged, staged, error, entry,
                   cli_h_steps>>
    /\ UNCHANGED <<gridvars, rsvars>>

\* line 163: "try max 5 times"
MaxTries == 5

\* line 163 without the limit: while not finished
WhileCond_NoLimit(fin, n) == ~fin

\* line 163: the condition of the retry loop
WhileCond(fin, n) == (~fin) /\ (n < MaxTries)

\* mutant: the request is sent in a dry run too
Retrieves_Always(dry) == TRUE

\* line 78: download_era5 hands the request to c.retrieve
Retrieves(dry) == ~dry

\* lines 80-90: the request of one chunk (numbers stand for their zero-padded
\* strings, an hour h for time(h, 0).strftime('%H:%M'))
Request(cs, ce, hs, vs, g, target) ==
    [dataset |-> "reanalysis-era5-single-levels",
     product_type |-> "reanalysis",
     format |-> IF g THEN "grib" ELSE "netcdf",
     variable |-> vs,
     year |-> <<cs.year>>,
     month |-> <<cs.month>>,
     day |-> [k \in 1..(ce.day - cs.day + 1) |-> cs.day + k - 1],
     time |-> hs,
     target |-> target]

\* what a call of c.retrieve can do: write the file and return, fail after
\* writing part of the file, fail before the file exists
RetrieveOutcomes == {"ok", "partial", "nofile"}

\* lines 170-175, os.remove(dl_file): fails when the file does not exist
RemoveFails(files, f) == f \notin files

\* lines 163-175: one pass of the retry loop, download_era5 (lines 78-92) and
\* the except clause included
Attempt ==
    /\ pc = "try"
    /\ WhileCond(finished, i)
    /\ \E outcome \in RetrieveOutcomes :
       LET calls == Retrieves(dry_run)
           \* iterating h_steps = None raises a TypeError before c.retrieve
           typeError == calls /\ h_steps = None
           issued == calls /\ ~typeError
           raised == typeError \/ (issued /\ outcome /= "ok")
           written == IF issued /\ outcome \in {"ok", "partial"}
                      THEN stagingFiles \cup {dl_file} ELSE stagingFiles
       IN  /\ attempts' = attempts + 1
           /\ staged' = IF issued /\ outcome = "ok"
                        THEN staged \cup {dl_file} ELSE staged
           /\ request' = IF issued
                         THEN Some(Request(curr_start, curr_end, Val(h_steps),
                                           Val(variables), grb, dl_file))
                         ELSE request
           /\ IF ~raised
              THEN /\ finished' = TRUE
                   /\ stagingFiles' = written
                   /\ pc' = "extract"
                   /\ UNCHANGED <<i, error>>
              ELSE IF RemoveFails(written, dl_file)
                   THEN /\ Raise("FileNotFoundError")
                        /\ stagingFiles' = written
                        /\ UNCHANGED <<finished, i>>
                   ELSE /\ stagingFiles' = written \ {dl_file}
                        /\ finished' = FALSE
                        /\ i' = i + 1
                        /\ pc' = "try"
                        /\ UNCHANGED error
    /\ UNCHANGED <<startdate, enddate, variables, keep_original, h_steps,
                   grb, dry_run, c, curr_start, curr_end, dl_file,
                   stagingExists, archive, chunks, extracts, preStaged,
                   result, entry, cli_h_steps>>
    /\ UNCHANGED <<gridvars, rsvars>>

\* line 163 (false): the retry loop is left after MaxTries failures
GiveUp ==
    /\ pc = "try"
    /\ ~WhileCond(finished, i)
    /\ pc' = "extract"
    /\ UNCHANGED <<startdate, enddate, variables, keep_original, h_steps,
                   grb, dry_run, c, curr_start, curr_end, dl_file, finished,
                   i, stagingExists, stagingFiles, archive, request, chunks,
                   attempts, extracts, preStaged, staged, error,
                   result, entry, cli_h_steps>>
    /\ UNCHANGED <<gridvars, rsvars>>

\* mutant: the extractor is called for the chunks that failed only
CallsExtractor_OnFailure(fin) == ~fin

\* lines 177-180: the extractor is called for the chunk, whatever finished is
CallsExtractor(fin) == TRUE

\* save_ncs_from_nc / save_gribs_from_grib (ecmwf_models.utils): the staged
\* file is split into the archive; a file that does not exist cannot be
\* split, and the call then raises or returns with nothing written
ExtractorOutcomes(files, f) ==
    IF f \in files THEN {"split"} ELSE {"raise", "nothing"}

Extract ==
    /\ pc = "extract"
    /\ IF CallsExtractor(finished)
       THEN \E r \in ExtractorOutcomes(stagingFiles, dl_file) :
               /\ extracts' = extracts + 1
               /\ archive' = IF r = "split" THEN archive \cup {dl_file}
                             ELSE archive
               /\ IF r = "raise"
                  THEN Raise("ExtractorError")
                  ELSE pc' = "cleanup" /\ UNCHANGED error
       ELSE /\ pc' = "cleanup"
            /\ UNCHANGED <<extracts, archive, error>>
    /\ UNCHANGED <<startdate, enddate, variables, keep_original, h_steps,
                   grb, dry_run, c, curr_start, curr_end, dl_file, finished,
                   i, stagingExists, stagingFiles, request, chunks, attempts,
                   preStaged, staged,
                   result, entry, cli_h_steps>>
    /\ UNCHANGED <<gridvars, rsvars>>

\* mutant: the staging directory is removed whatever keep_original is
Rmtree_Always(keep) == TRUE

\* lines 182-183: shutil.rmtree(downloaded_data_path) unless keep_original
Rmtree(keep) == ~keep

\* lines 182-185: the staging directory is removed, curr_start advances
Cleanup ==
    /\ pc = "cleanup"
    /\ IF Rmtree(keep_original)
       THEN stagingExists' = FALSE /\ stagingFiles' = {}
       ELSE UNCHANGED <<stagingExists, stagingFiles>>
    /\ curr_start' = PlusOneDay(curr_end)
    /\ pc' = "loop"
    /\ UNCHANGED <<startdate, enddate, variables, keep_original, h_steps,
                   grb, dry_run, c, curr_end, dl_file, finished, i, archive,
                   request, chunks, attempts, extracts, preStaged, staged,
                   error,
                   result, entry, cli_h_steps>>
    /\ UNCHANGED <<gridvars, rsvars>>

Next ==
    \/ main \/ Call \/ ResolveVariables \/ CreateClient \/ ChunkSetup
    \/ Attempt \/ GiveUp \/ Extract \/ Cleanup \/ Return

Spec == Init /\ [][Next]_vars

\* the interpreter runs the next statement of a started call, and every
\* collaborator call returns or raises: no step that can be taken is put off
\* for ever
FairSpec == Spec /\ WF_vars(Next)

-----------------------------------------------------------------------------
(* Claims about download.py, checked under Spec *)

LastChunk == chunks[Len(chunks)]
ChunkDays(ch) == ToOrdinal(ch.start)..ToOrdinal(ch.end)
AtChunkBoundary == pc \in {"loop", "returned"} /\ Len(chunks) >= 1

\* C1: the chunks are produced in ascending, contiguous order (each starts
\* the day after the previous one ends, the first on startdate), and when
\* download_and_move returns for startdate <= enddate the last chunk ends on
\* enddate and every day of [startdate, enddate] lies in exactly one chunk.
C1_ChunksCoverRange ==
    /\ \A k \in 1..Len(chunks) :
          /\ ToOrdinal(chunks[k].start) <= ToOrdinal(chunks[k].end)
          /\ k = 1 => Ymd(chunks[k].start) = Ymd(startdate)
          /\ k > 1 => ToOrdinal(chunks[k].start)
                        = ToOrdinal(chunks[k - 1].end) + 1
    /\ (pc = "returned" /\ DateLeq(startdate, enddate)) =>
          /\ Len(chunks) >= 1
          /\ Ymd(LastChunk.end) = Ymd(enddate)
          /\ LET days == [k \in 1..Len(chunks) |-> ChunkDays(chunks[k])]
             IN  /\ UNION {days[k] : k \in 1..Len(chunks)}
                      = ToOrdinal(startdate)..ToOrdinal(enddate)
                 /\ \A j, k \in 1..Len(chunks) :
                       j /= k => days[j] \cap days[k] = {}

\* C1 witness: 2017-01-15 to 2017-03-10 was chunked into
\* [01-15,01-31], [02-01,02-28], [03-01,03-10]
C1_Witness ==
    /\ pc = "returned"
    /\ Ymd(startdate) = <<2017, 1, 15>> /\ Ymd(enddate) = <<2017, 3, 10>>
    /\ Len(chunks) = 3
    /\ Ymd(chunks[1].end) = <<2017, 1, 31>>
    /\ Ymd(chunks[2].start) = <<2017, 2, 1>>
    /\ Ymd(chunks[2].end) = <<2017, 2, 28>>
    /\ Ymd(chunks[3].start) = <<2017, 3, 1>>
    /\ Ymd(chunks[3].end) = <<2017, 3, 10>>

\* the request at hand was issued for the chunk at hand
RequestOfChunk == request /= None /\ attempts > 0

C3_AnyExceptionRetried ==
    /\ attempts <= 5
    /\ (h_steps /= None /\ attempts > 0 /\ ~finished) =>
          /\ i = attempts
          /\ dl_file \notin stagingFiles
          /\ error /= "FileNotFoundError"

\* C4 (as claimed): the extractor is called for a chunk only after the
\* chunk's retrieval succeeded.
C4_ExtractOnlyAfterSuccess == extracts > 0 => finished

\* C5: a chunk whose attempts 1 to 4 failed and whose attempt 5 succeeded got
\* 5 attempts and exactly one extractor call, and without keep_original no
\* staging file (and no staging directory) is left once the chunk is done.
C5_FifthAttemptSucceeds ==
    (finished /\ i = 4 /\ pc \in {"cleanup", "loop", "returned"}) =>
       /\ attempts = 5
       /\ extracts = 1
       /\ (pc /= "cleanup" /\ ~keep_original) =>
             (stagingFiles = {} /\ ~stagingExists)

\* C5 witness: such a chunk is done, keep_original not set
C5_Witness ==
    /\ finished /\ i = 4 /\ pc = "loop" /\ ~keep_original
    /\ extracts = 1

\* C6 (as claimed): a dry run creates no client, sends no request and writes
\* no file outside the staging directory.
C6_DryRunWritesNothing ==
    dry_run => (c /= "Client" /\ request = None /\ archive = {})

\* C6 (amended): a dry run creates no client and sends no request; each
\* download_era5 call succeeds at once and stages nothing, and the extractor
\* writes to the archive only from staged files present before the run.
C6_DryRunNoClientNoRetrieve ==
    dry_run =>
       /\ c /= "Client"
       /\ request = None
       /\ attempts <= 1 /\ i = 0
       /\ attempts = 1 => finished
       /\ staged = {}
       /\ stagingFiles \subseteq preStaged
       /\ archive \subseteq preStaged

\* C6 witness: a dry run over several chunks has returned
C6_Witness ==
    /\ dry_run /\ pc = "returned" /\ Len(chunks) >= 2
    /\ c = "None" /\ request = None

\* C7: at every chunk boundary the staging directory is gone when
\* keep_original is not set, and when it is set the directory exists and
\* still holds the staged file of every chunk retrieved so far.
C7_StagingAllOrNothing ==
    AtChunkBoundary =>
       IF keep_original
       THEN stagingExists /\ staged \subseteq stagingFiles
       ELSE ~stagingExists /\ stagingFiles = {}

\* C7 witness: keep_original is set and the files of two chunks are retained
C7_Witness ==
    /\ AtChunkBoundary /\ keep_original
    /\ Cardinality(staged) >= 2
    /\ staged \subseteq stagingFiles

\* every chunk of the range was retrieved and extracted
AllChunksArchived ==
    /\ DateLeq(startdate, enddate) =>
          (Len(chunks) >= 1 /\ Ymd(LastChunk.end) = Ymd(enddate))
    /\ \A k \in 1..Len(chunks) :
          Fname(chunks[k].start, chunks[k].end, grb) \in archive

\* C8 (as claimed): download_and_move returns success exactly when every
\* chunk was retrieved and extracted, and failure otherwise.
C8_ReturnsOutcome ==
    (pc = "returned" /\ Len(chunks) >= 1) =>
       result = (IF AllChunksArchived THEN "True" ELSE "False")

\* C9 (as claimed): when the command is run without --h_steps, every attempt
\* sends a request for the hours 0, 6, 12, 18, reshuffle's default.
C9_CommandDefaultHSteps ==
    (entry = "main" /\ cli_h_steps = None /\ attempts > 0) =>
       /\ request /= None
       /\ Val(request).time = ReshuffleHSteps(None)

\* the variables are resolved: lines 125-130 are done
VariablesResolved == pc \notin {"idle", "resolve"}

\* C16: the client is created and the first chunk begun only after the
\* variables were resolved; once resolved, variables never changes and every
\* request (of every chunk, of every attempt) carries it; when the lookup
\* fails, no client is created, no staging directory is made and nothing is
\* retrieved.
C16_VariablesResolvedOnce ==
    /\ [](/\ (c /= "unset" \/ chunks /= <<>> \/ attempts > 0) =>
               (VariablesResolved /\ error /= "UnknownVariableError")
          /\ (VariablesResolved /\ request /= None) =>
               (Val(request).variable = Val(variables))
          /\ (error = "UnknownVariableError") =>
               (/\ c = "unset" /\ request = None
                /\ chunks = <<>> /\ attempts = 0
                /\ stagingExists = (preStaged /= {})
                /\ stagingFiles = preStaged))
    /\ [][VariablesResolved => (variables' = variables)]_vars

\* C16 witness: a second chunk is at its second attempt or later and its
\* request carries the resolved variables
C16_Witness ==
    /\ Len(chunks) >= 2 /\ attempts >= 2
    /\ request /= None
    /\ Val(request).variable = Val(variables)
    /\ Val(request).year = <<LastChunk.start.year>>

\* the calendar months from startdate's to enddate's, none when the range is
\* empty
MonthsTouched(s, e) ==
    IF DateLeq(s, e)
    THEN (12 * e.year + e.month) - (12 * s.year + s.month) + 1
    ELSE 0

\* C18: every call of download_and_move ends, returning or raising; each
\* outer iteration ends with curr_start strictly later than it began; there
\* are at most as many chunks as calendar months touched by the range; each
\* chunk makes at most 5 retrieval attempts.
C18_Terminates ==
    /\ <>(pc \in {"returned", "raised"})
    /\ [](/\ attempts <= 5
          /\ VariablesResolved =>
               (Len(chunks) <= MonthsTouched(startdate, enddate)))
    /\ [][pc = "cleanup" =>
            (DateLeq(curr_start, curr_start') /\ curr_start' /= curr_start)]_vars

\* C18 witness: a call with times of day on both dates returned after as many
\* chunks as months touched, more than one, the last after 5 attempts
C18_Witness ==
    /\ pc = "returned"
    /\ startdate.hour /= 0 /\ enddate.hour /= 0
    /\ Len(chunks) >= 2
    /\ Len(chunks) = MonthsTouched(startdate, enddate)
    /\ attempts = 5

-----------------------------------------------------------------------------
(* grid.py.  A coordinate is an integer number of units of 1/10000 degree, *)
(* one decimal more than get_grid_resolution rounds to.                    *)

\* units per degree
Deg == 10 * 1000

Abs(x) == IF x < 0 THEN -x ELSE x

\* np.arange(0, 360 - res / 2, res): k * res for k = 0, 1, ... below the stop
LonArange(res) ==
    { k * res : k \in { n \in 0..((360 * Deg) \div res + 1) :
                        2 * n * res < 720 * Deg - res } }

\* np.arange(90, -1 * 90, -1 * res): the stop not moved past the south pole
LatArange_StopAtPole(res) ==
    { 90 * Deg - k * res :
        k \in { n \in 0..((180 * Deg) \div res + 1) :
                90 * Deg - n * res > -(90 * Deg) } }

\* np.arange(90, -1 * 90 - res / 2, -1 * res)
LatArange(res) ==
    { 90 * Deg - k * res :
        k \in { n \in 0..((180 * Deg) \div res + 1) :
                2 * (90 * Deg - n * res) > -(180 * Deg) - res } }

\* lines 74-75: lon[lon > 180] -= 360
WrapLon(l) == IF l > 180 * Deg THEN l - 360 * Deg ELSE l

\* ERA_RegularImgGrid, lines 72-79: the latitudes and longitudes of the grid
\* points (activearrlat, activearrlon), as the sets np.unique makes of them
ERA_RegularImgGrid(rlat, rlon) ==
    [lat |-> LatArange(rlat),
     lon |-> { WrapLon(l) : l \in LonArange(rlon) }]

\* zip(a[:-1], a[1:]) of the sorted unique array a = np.unique(S)
AdjacentPairs(S) ==
    { p \in S \X S : p[1] < p[2] /\ ~\E m \in S : p[1] < m /\ m < p[2] }

\* lines 38 and 46: np.abs(np.abs(j) - np.abs(i))
Delta(a, b) == Abs(Abs(b) - Abs(a))

\* np.round(x, 3) for x >= 0: to the nearest 1/1000 degree, halves to even
Round3(x) ==
    LET q == x \div 10
        r == x % 10
    IN  IF r < 5 THEN 10 * q
        ELSE IF r > 5 THEN 10 * (q + 1)
        ELSE IF q % 2 = 0 THEN 10 * q ELSE 10 * (q + 1)

\* lines 37-39 and 45-47: the rounded deltas of one axis
AxisDeltas(S) == { Round3(Delta(p[1], p[2])) : p \in AdjacentPairs(S) }

\* lines 40-43 and 48-51: the resolution of one axis, "IndexError" when there
\* is no delta (res[0] of an empty array), "ValueError" when the deltas differ
AxisRaises(S) ==
    IF AxisDeltas(S) = {} THEN "IndexError"
    ELSE IF Cardinality(AxisDeltas(S)) > 1 THEN "ValueError: Grid not regular"
    ELSE "None"

AxisResolution(S) == CHOOSE d \in AxisDeltas(S) : TRUE

\* get_grid_resolution, lines 32-52
get_grid_resolution(lats, lons) ==
    IF AxisRaises(lats) /= "None"
    THEN [raised |-> AxisRaises(lats), lat_res |-> 0, lon_res |-> 0]
    ELSE IF AxisRaises(lons) /= "None"
    THEN [raised |-> AxisRaises(lons), lat_res |-> 0, lon_res |-> 0]
    ELSE [raised |-> "None", lat_res |-> AxisResolution(lats),
          lon_res |-> AxisResolution(lons)]

\* the resolutions tried: 2.8125, 4, 5.625, 11.25, 22.5, 30, 45, 50, 60, 90
ResInputs ==
    {28125, 4 * Deg, 56250, 112500, 225000, 30 * Deg, 45 * Deg, 50 * Deg,
     60 * Deg, 90 * Deg}

InitGrid ==
    /\ DownloadInit
    /\ stagingFiles = {}
    /\ gpc = "start"
    /\ res_lat \in ResInputs /\ res_lon \in ResInputs
    /\ lat = {} /\ lon = {} /\ gres = NoResolution
    /\ IrregularIdle
    /\ ReshuffleIdle /\ outputExists = FALSE

\* test_grid.py line 32: reg_grid = ERA_RegularImgGrid(res_lat, res_lon)
BuildRegularGrid ==
    /\ gpc = "start"
    /\ lat' = ERA_RegularImgGrid(res_lat, res_lon).lat
    /\ lon' = ERA_RegularImgGrid(res_lat, res_lon).lon
    /\ gpc' = "built"
    /\ UNCHANGED <<res_lat, res_lon, gres, irrvars>>
    /\ UNCHANGED <<dlvars, rsvars>>

\* test_grid.py lines 35-36: get_grid_resolution(activearrlat, activearrlon)
GetGridResolution ==
    /\ gpc \in {"built", "given"}
    /\ gres' = get_grid_resolution(lat, lon)
    /\ gpc' = "resolved"
    /\ UNCHANGED <<res_lat, res_lon, lat, lon, irrvars>>
    /\ UNCHANGED <<dlvars, rsvars>>

NextGrid == BuildRegularGrid \/ GetGridResolution

SpecGrid == InitGrid /\ [][NextGrid]_vars

-----------------------------------------------------------------------------
(* Claims about grid.py, checked under SpecGrid *)

\* a resolution that divides the globe: 180 degrees of latitude, 360 of
\* longitude
ValidResolution(rlat, rlon) ==
    /\ rlat > 0 /\ rlon > 0
    /\ (180 * Deg) % rlat = 0
    /\ (360 * Deg) % rlon = 0

\* a resolution of at most three decimals, which np.round(x, 3) leaves alone
ThreeDecimals(res) == Round3(res) = res

\* C10 (as claimed): for every valid resolution (here of at most three
\* decimals), get_grid_resolution of the coordinates of
\* ERA_RegularImgGrid(res_lat, res_lon) raises nothing and returns
\* (res_lat, res_lon).
C10_ResolutionRoundTrip ==
    (/\ gpc = "resolved"
     /\ ValidResolution(res_lat, res_lon)
     /\ ThreeDecimals(res_lat) /\ ThreeDecimals(res_lon)) =>
       gres = [raised |-> "None", lat_res |-> res_lat, lon_res |-> res_lon]

-----------------------------------------------------------------------------
(* get_grid_resolution on coordinates of any kind: SpecCoords *)

\* the coordinates tried: -3, -1, 0, 1.0004, 2, 3 and 5 degrees
CoordValues == {-3 * Deg, -Deg, 0, Deg + 4, 2 * Deg, 3 * Deg, 5 * Deg}

\* a caller hands get_grid_resolution two arrays of coordinates
InitCoords ==
    /\ DownloadInit
    /\ stagingFiles = {}
    /\ gpc = "given"
    /\ res_lat = 0 /\ res_lon = 0
    /\ lat \in SUBSET CoordValues /\ lon \in SUBSET CoordValues
    /\ gres = NoResolution
    /\ IrregularIdle
    /\ ReshuffleIdle /\ outputExists = FALSE

NextCoords == GetGridResolution

SpecCoords == InitCoords /\ [][NextCoords]_vars

\* the differences between adjacent values of the sorted unique coordinates,
\* rounded to 3 decimals
AdjacentDifferences(S) == { Round3(p[2] - p[1]) : p \in AdjacentPairs(S) }

\* C11 (as claimed): get_grid_resolution raises 'Grid not regular' exactly
\* when the rounded differences between adjacent sorted unique latitudes, or
\* longitudes, are not all equal, and otherwise returns a resolution, also
\* for coordinates of both signs.
C11_NotRegularIffDeltasDiffer ==
    (/\ gpc = "resolved"
     /\ Cardinality(lat) >= 2 /\ Cardinality(lon) >= 2) =>
       IF \/ Cardinality(AdjacentDifferences(lat)) > 1
          \/ Cardinality(AdjacentDifferences(lon)) > 1
       THEN gres.raised = "ValueError: Grid not regular"
       ELSE gres.raised = "None"

-----------------------------------------------------------------------------
(* ERA_RegularImgGrid alone, also at 0.3 degrees: SpecRegular *)

\* test_grid.py line 32 adds the resolution 0.3
FineResInputs == ResInputs \cup {3000}

InitRegular ==
    /\ DownloadInit
    /\ stagingFiles = {}
    /\ gpc = "start"
    /\ res_lat \in FineResInputs /\ res_lon \in FineResInputs
    /\ lat = {} /\ lon = {} /\ gres = NoResolution
    /\ IrregularIdle
    /\ ReshuffleIdle /\ outputExists = FALSE

NextRegular == BuildRegularGrid

SpecRegular == InitRegular /\ [][NextRegular]_vars

\* C12: the longitudes of ERA_RegularImgGrid(res_lat, res_lon) lie in
\* (-180, 180]; when res_lat divides 180 the latitudes are 90, 90 - res_lat,
\* ..., -90, that is 180 / res_lat + 1 of them; when res_lon divides 360
\* there are 360 / res_lon longitudes; 601 and 1200 for 0.3 degrees.
C12_GlobalGrid ==
    gpc = "built" =>
      /\ \A l \in lon : -(180 * Deg) < l /\ l <= 180 * Deg
      /\ (180 * Deg) % res_lat = 0 =>
            /\ lat = { 90 * Deg - k * res_lat :
                         k \in 0..((180 * Deg) \div res_lat) }
            /\ 90 * Deg \in lat /\ -(90 * Deg) \in lat
            /\ Cardinality(lat) = (180 * Deg) \div res_lat + 1
      /\ (360 * Deg) % res_lon = 0 =>
            Cardinality(lon) = (360 * Deg) \div res_lon
      /\ res_lat = 3000 => Cardinality(lat) = 601
      /\ res_lon = 3000 => Cardinality(lon) = 1200

\* the grid of 0.3 degrees was built, with longitudes on both sides of zero
C12_Witness ==
    /\ gpc = "built"
    /\ res_lat = 3000 /\ res_lon = 3000
    /\ Cardinality(lat) = 601 /\ Cardinality(lon) = 1200
    /\ \E l \in lon : l < 0
    /\ 180 * Deg \in lon

-----------------------------------------------------------------------------
(* ERA_IrregularImgGrid on a meshgrid, against ERA_RegularImgGrid:         *)
(* SpecIrregular (test_ERA_irregular_grid).  An array is a sequence, a     *)
(* 2-D array the sequence of its rows.                                     *)

\* np.arange(0, 360 - res / 2, res) as an array
lon_arange(res) == [k \in 1..Cardinality(LonArange(res)) |-> (k - 1) * res]

\* np.arange(90, -1 * 90 - res / 2, -1 * res) as an array
lat_arange(res) ==
    [k \in 1..Cardinality(LatArange(res)) |-> 90 * Deg - (k - 1) * res]

\* np.meshgrid(x, y): Len(y) rows of Len(x) values, X repeats x in every row,
\* Y repeats y[r] along row r
meshgrid(x, y) ==
    [X |-> [r \in 1..Len(y) |-> x],
     Y |-> [r \in 1..Len(y) |-> [k \in 1..Len(x) |-> y[r]]]]

\* ndarray.flatten() of a 2-D array: row after row
flatten(A) ==
    LET rows == Len(A)
        cols == IF rows = 0 THEN 0 ELSE Len(A[1])
    IN  [k \in 1..(rows * cols) |->
            A[((k - 1) \div cols) + 1][((k - 1) % cols) + 1]]

\* a[np.where(a > 180.0)] = a[np.where(a > 180.0)] - 360, on a 1-D array
WrapArray(a) == [k \in 1..Len(a) |-> WrapLon(a[k])]

\* the same on a 2-D array
WrapArray2D(A) == [r \in 1..Len(A) |-> WrapArray(A[r])]

\* ERA_RegularImgGrid, lines 72-79, point by point: the longitudes are
\* wrapped, then meshed with the latitudes, then flattened
RegularImgGridPoints(rlat, rlon) ==
    LET m == meshgrid(WrapArray(lon_arange(rlon)), lat_arange(rlat))
    IN  [arrlon |-> flatten(m.X), arrlat |-> flatten(m.Y)]

\* lines 83-85 without lines 83-84: the longitudes are not wrapped
ERA_IrregularImgGrid_NoWrap(lons, lats) ==
    [lons |-> lons,
     grid |-> [arrlon |-> flatten(lons), arrlat |-> flatten(lats)]]

\* ERA_IrregularImgGrid, lines 82-85: line 84 assigns into the array lons
\* the caller passed; field lons is that array after the call, field grid
\* the grid returned
ERA_IrregularImgGrid(lons, lats) ==
    [lons |-> WrapArray2D(lons),
     grid |-> [arrlon |-> flatten(WrapArray2D(lons)),
               arrlat |-> flatten(lats)]]

\* the resolutions tried (test_grid.py lines 41-42 use 1.0): 11.25, 22.5,
\* 30, 45, 50, 60, 90
MeshResInputs ==
    {112500, 225000, 30 * Deg, 45 * Deg, 50 * Deg, 60 * Deg, 90 * Deg}

InitIrregular ==
    /\ DownloadInit
    /\ stagingFiles = {}
    /\ gpc = "start"
    /\ res_lat \in MeshResInputs /\ res_lon \in MeshResInputs
    /\ lat = {} /\ lon = {} /\ gres = NoResolution
    /\ IrregularIdle
    /\ ReshuffleIdle /\ outputExists = FALSE

\* test_grid.py lines 41-43: lons, lats = np.meshgrid(lon, lat)
Meshgrid ==
    /\ gpc = "start"
    /\ mesh_lons' = meshgrid(lon_arange(res_lon), lat_arange(res_lat)).X
    /\ mesh_lats' = meshgrid(lon_arange(res_lon), lat_arange(res_lat)).Y
    /\ gpc' = "meshed"
    /\ UNCHANGED <<res_lat, res_lon, lat, lon, gres, grid, reg_grid>>
    /\ UNCHANGED <<dlvars, rsvars>>

\* test_grid.py line 45: grid = ERA_IrregularImgGrid(lons, lats)
CallIrregularImgGrid ==
    /\ gpc = "meshed"
    /\ grid' = ERA_IrregularImgGrid(mesh_lons, mesh_lats).grid
    /\ mesh_lons' = ERA_IrregularImgGrid(mesh_lons, mesh_lats).lons
    /\ gpc' = "irregular"
    /\ UNCHANGED <<res_lat, res_lon, lat, lon, gres, mesh_lats, reg_grid>>
    /\ UNCHANGED <<dlvars, rsvars>>

\* test_grid.py line 47: the grid ERA_RegularImgGrid makes, to compare with
CallRegularImgGrid ==
    /\ gpc = "irregular"
    /\ reg_grid' = RegularImgGridPoints(res_lat, res_lon)
    /\ gpc' = "compared"
    /\ UNCHANGED <<res_lat, res_lon, lat, lon, gres, mesh_lons, mesh_lats,
                   grid>>
    /\ UNCHANGED <<dlvars, rsvars>>

NextIrregular == Meshgrid \/ CallIrregularImgGrid \/ CallRegularImgGrid

SpecIrregular == InitIrregular /\ [][NextIrregular]_vars

\* C13: ERA_IrregularImgGrid of the meshgrid of the unwrapped longitudes
\* 0, res_lon, ... and the latitudes 90, 90 - res_lat, ... is the grid
\* ERA_RegularImgGrid(res_lat, res_lon) makes: the same points, in the same
\* order, with the same longitudes wrapped.
C13_IrregularEqualsRegular ==
    gpc = "compared" => grid = reg_grid

\* both grids were built, of more than one row, and a longitude was wrapped
C13_Witness ==
    /\ gpc = "compared"
    /\ Len(mesh_lats) > 1
    /\ \E k \in 1..Len(grid.arrlon) : grid.arrlon[k] < 0
    /\ \E k \in 1..Len(lon_arange(res_lon)) :
         lon_arange(res_lon)[k] > 180 * Deg
    /\ grid = reg_grid

\* C19 (as claimed): after ERA_IrregularImgGrid(lons, lats) returned, the
\* caller's arrays lons and lats hold the values they held before the call.
C19_ArgumentsUnchanged ==
    gpc \in {"irregular", "compared"} =>
      /\ mesh_lons = meshgrid(lon_arange(res_lon), lat_arange(res_lat)).X
      /\ mesh_lats = meshgrid(lon_arange(res_lon), lat_arange(res_lat)).Y

-----------------------------------------------------------------------------
(* era5/reshuffle.py: SpecReshuffle.  An image is named by its timestamp.  *)
(* The archive under input_root holds an image for every h_step of every   *)
(* day of the range, so that no read fails.                                *)

\* the range ends at most this many days after the day it starts
MaxRangeDays == 1

RsStartDates == DatesOfMonth(<<2016, 12>>, {30, 31}, {0, 12})

RECURSIVE PlusDays(_, _)
\* datetime + timedelta(days=n)
PlusDays(a, n) == IF n = 0 THEN a ELSE PlusOneDay(PlusDays(a, n - 1))

RsEndDates(s) ==
    { e \in { [PlusDays(s, n) EXCEPT !.hour = h] :
               n \in 0..MaxRangeDays, h \in {0, 12} } : DateLeq(s, e) }

\* None is what the command passes without --h_steps (line 144)
RsHSteps ==
    {None, Some(<<0, 12>>), Some(<<12, 0>>), Some(<<6>>),
     Some(<<0, 6, 12, 18>>)}

\* 200 is the default of reshuffle (line 44)
RsImgbuffers == {1, 2, 3, 200}

\* parse_filetype(input_root) (ecmwf_models.utils): the encoding it detects
ParseFiletypeOutcomes == {"grib", "netcdf", "other"}

InitReshuffle ==
    /\ DownloadInit
    /\ stagingFiles = {}
    /\ GridIdle
    /\ ReshuffleIdle
    /\ outputExists \in BOOLEAN

RsRaise(exc) == rs_pc' = "raised" /\ rs_error' = exc

\* reshuffle(input_root, outputpath, startdate, enddate, variables, h_steps,
\* mask_seapoints, imgbuffer) is called (by main, lines 162-169, or directly)
\* and lines 73-74 give h_steps its default
CallReshuffle ==
    /\ rs_pc = "idle"
    /\ \E s \in RsStartDates, hs \in RsHSteps, b \in RsImgbuffers :
         \E e \in RsEndDates(s) :
           /\ rs_startdate' = s
           /\ rs_enddate' = e
           /\ rs_h_steps' = Some(ReshuffleHSteps(hs))
           /\ rs_imgbuffer' = b
    /\ rs_pc' = "filetype"
    /\ UNCHANGED <<filetype, outputExists, first_date_time, rs_reads,
                   rs_buffer, rs_next, rs_written, rs_makedirs, rs_error>>
    /\ UNCHANGED <<dlvars, gridvars>>

\* line 76: filetype = parse_filetype(input_root)
ParseFiletype ==
    /\ rs_pc = "filetype"
    /\ \E ft \in ParseFiletypeOutcomes : filetype' = ft
    /\ rs_pc' = "dataset"
    /\ UNCHANGED <<rs_startdate, rs_enddate, rs_h_steps, rs_imgbuffer,
                   outputExists, first_date_time, rs_reads, rs_buffer,
                   rs_next, rs_written, rs_makedirs, rs_error>>
    /\ UNCHANGED <<dlvars, gridvars>>

\* lines 78-87 without the else branch: no file type is refused
UnknownFormat_Never(ft) == FALSE

\* lines 78, 82, 86: the else branch is taken
UnknownFormat(ft) == ft /= "grib" /\ ft /= "netcdf"

\* lines 78-87: the dataset is opened, or the file type is refused
OpenDataset ==
    /\ rs_pc = "dataset"
    /\ IF UnknownFormat(filetype)
       THEN RsRaise("Exception: Unknown file format")
       ELSE rs_pc' = "makedirs" /\ UNCHANGED rs_error
    /\ UNCHANGED <<rs_startdate, rs_enddate, rs_h_steps, rs_imgbuffer,
                   filetype, outputExists, first_date_time, rs_reads,
                   rs_buffer, rs_next, rs_written, rs_makedirs>>
    /\ UNCHANGED <<dlvars, gridvars>>

\* lines 89-90: if not os.path.exists(outputpath): os.makedirs(outputpath)
Makedirs ==
    /\ rs_pc = "makedirs"
    /\ rs_makedirs' = (rs_makedirs \/ ~outputExists)
    /\ outputExists' = TRUE
    /\ rs_pc' = "first"
    /\ UNCHANGED <<rs_startdate, rs_enddate, rs_h_steps, rs_imgbuffer,
                   filetype, first_date_time, rs_reads, rs_buffer, rs_next,
                   rs_written, rs_error>>
    /\ UNCHANGED <<dlvars, gridvars>>

\* line 95: datetime.combine(startdate.date(), time(h_steps[0], 0))
FirstDateTime(s, hs) == [s EXCEPT !.hour = hs[1]]

\* lines 95-101: the image at first_date_time is read for the metadata and
\* the grid
ReadFirstImage ==
    /\ rs_pc = "first"
    /\ first_date_time' = FirstDateTime(rs_startdate, Val(rs_h_steps))
    /\ rs_reads' = Append(rs_reads, first_date_time')
    /\ rs_pc' = "calc"
    /\ UNCHANGED <<rs_startdate, rs_enddate, rs_h_steps, rs_imgbuffer,
                   filetype, outputExists, rs_buffer, rs_next, rs_written,
                   rs_makedirs, rs_error>>
    /\ UNCHANGED <<dlvars, gridvars>>

\* the ascending order of a list of hours
SortedHours(hs) == SortSeq(hs, LAMBDA a, b : a < b)

\* the timestamps Img2Ts iterates: from start to end, every day at the
\* configured h_steps, in timestamp order
Timestamps(s, e, hs) ==
    LET n == Len(hs)
        days == ToOrdinal(e) - ToOrdinal(s) + 1
        all == [k \in 1..(days * n) |->
                 [PlusDays(s, (k - 1) \div n) EXCEPT
                    !.hour = SortedHours(hs)[((k - 1) % n) + 1]]]
    IN  SelectSeq(all, LAMBDA t : DateLeq(s, t) /\ DateLeq(t, e))

\* line 105 passing the default of line 44 instead of the parameter
Img2TsImgbuffer_Default(b) == 200

\* line 105: imgbuffer=imgbuffer, the buffer size Img2Ts is given
Img2TsImgbuffer(b) == b

\* Img2Ts.calc, line 108: the next image of the range is read into the buffer
BufferImage ==
    /\ rs_pc = "calc"
    /\ rs_next <= Len(Timestamps(rs_startdate, rs_enddate, Val(rs_h_steps)))
    /\ Len(rs_buffer) < Img2TsImgbuffer(rs_imgbuffer)
    /\ LET t == Timestamps(rs_startdate, rs_enddate, Val(rs_h_steps))[rs_next]
       IN  /\ rs_buffer' = Append(rs_buffer, t)
           /\ rs_reads' = Append(rs_reads, t)
    /\ rs_next' = rs_next + 1
    /\ UNCHANGED <<rs_pc, rs_startdate, rs_enddate, rs_h_steps, rs_imgbuffer,
                   filetype, outputExists, first_date_time, rs_written,
                   rs_makedirs, rs_error>>
    /\ UNCHANGED <<dlvars, gridvars>>

\* Img2Ts.calc: the buffer is full, or the range is exhausted: its images
\* are appended to the time series and the buffer is cleared
FlushBuffer ==
    /\ rs_pc = "calc"
    /\ rs_buffer /= <<>>
    /\ \/ Len(rs_buffer) >= Img2TsImgbuffer(rs_imgbuffer)
       \/ rs_next > Len(Timestamps(rs_startdate, rs_enddate,
                                   Val(rs_h_steps)))
    /\ rs_written' = rs_written \o rs_buffer
    /\ rs_buffer' = <<>>
    /\ UNCHANGED <<rs_pc, rs_startdate, rs_enddate, rs_h_steps, rs_imgbuffer,
                   filetype, outputExists, first_date_time, rs_reads,
                   rs_next, rs_makedirs, rs_error>>
    /\ UNCHANGED <<dlvars, gridvars>>

\* Img2Ts.calc returns, and reshuffle with it
CalcDone ==
    /\ rs_pc = "calc"
    /\ rs_buffer = <<>>
    /\ rs_next > Len(Timestamps(rs_startdate, rs_enddate, Val(rs_h_steps)))
    /\ rs_pc' = "done"
    /\ UNCHANGED <<rs_startdate, rs_enddate, rs_h_steps, rs_imgbuffer,
                   filetype, outputExists, first_date_time, rs_reads,
                   rs_buffer, rs_next, rs_written, rs_makedirs, rs_error>>
    /\ UNCHANGED <<dlvars, gridvars>>

NextReshuffle ==
    \/ CallReshuffle \/ ParseFiletype \/ OpenDataset \/ Makedirs
    \/ ReadFirstImage \/ BufferImage \/ FlushBuffer \/ CalcDone

SpecReshuffle == InitReshuffle /\ [][NextReshuffle]_vars

-----------------------------------------------------------------------------
(* Claims about reshuffle.py, checked under SpecReshuffle *)

\* C14: Img2Ts never holds more than imgbuffer images, and when reshuffle is
\* done the time series hold the images of the range, each once, in
\* timestamp order: the same series whatever imgbuffer (1, 2, 3 or 200) is.
C14_SameOutputAnyBuffer ==
    /\ Len(rs_buffer) <= rs_imgbuffer
    /\ rs_pc = "done" =>
          rs_written = Timestamps(rs_startdate, rs_enddate, Val(rs_h_steps))

\* C14 witness: a range of more than two images was written with a buffer
\* of 2 images, which was filled and flushed more than once
C14_Witness ==
    /\ rs_pc = "done"
    /\ rs_imgbuffer = 2
    /\ Len(rs_written) > 2
    /\ rs_written = Timestamps(rs_startdate, rs_enddate, Val(rs_h_steps))

\* C15: when the file type detected is neither grib nor netcdf, reshuffle
\* raises 'Unknown file format', and it has not created the output
\* directory, read an image or written a time series.
C15_UnknownFormatFailsFirst ==
    (filetype \notin {"unset", "grib", "netcdf"}) =>
       /\ rs_pc \in {"dataset", "raised"}
       /\ rs_pc = "raised" => rs_error = "Exception: Unknown file format"
       /\ ~rs_makedirs
       /\ rs_reads = <<>> /\ rs_buffer = <<>> /\ rs_written = <<>>

\* C15 witness: reshuffle raised on an unknown file type, the output
\* directory still missing
C15_Witness ==
    /\ rs_pc = "raised"
    /\ filetype = "other"
    /\ rs_error = "Exception: Unknown file format"
    /\ ~outputExists

\* the hours of h_steps at or after startdate's time on the start day
HoursFromStart(s, hs) == { hs[k] : k \in 1..Len(hs) } \ (0..(s.hour - 1))

\* C17 (as claimed, here for a startdate at midnight): the image read for
\* the metadata and the grid is the earliest of the range: the start day at
\* the smallest of the h_steps that is not before startdate's time, whatever
\* the order of h_steps.
C17_ReadsFirstImageOfRange ==
    (/\ rs_pc \in {"calc", "done"}
     /\ rs_startdate.hour = 0
     /\ HoursFromStart(rs_startdate, Val(rs_h_steps)) /= {}) =>
       /\ \A h \in HoursFromStart(rs_startdate, Val(rs_h_steps)) :
             first_date_time.hour <= h
       /\ first_date_time.hour
             \in HoursFromStart(rs_startdate, Val(rs_h_steps))
       /\ Ymd(first_date_time) = Ymd(rs_startdate)
       /\ rs_reads[1] = first_date_time
====
